---- MODULE Spec2Model ----
(***************************************************************************)
(* Model of the terminal markdown renderer (src/src/terminal_renderer.rs) *)
(* and of the conversation format (src/src/lib.rs).                        *)
(*                                                                         *)
(* A string is a sequence of one-character strings.  The render driver     *)
(* (MarkdownRenderer::render) is a loop over the events of the external    *)
(* markdown parser: one action per match arm.  The parser itself is not    *)
(* part of the repository; its state is the stack `open` of the elements   *)
(* it has opened and not yet closed, and CanEmit says which event it        *)
(* can emit next.  The model does not relate the events to the text.       *)
(***************************************************************************)
EXTENDS Integers, Sequences, FiniteSets, TLC

VARIABLES
    markdown,            \* the argument of render
    pc,                  \* "start" | "loop" | "done" | "panicked"
    result,              \* the string render returns
    context,             \* RenderContext
    code_renderer,       \* Option<CodeBlockRenderer>
    table_renderer,      \* Option<TableRenderer>
    blockquote_renderer, \* Option<BlockquoteRenderer>
    list_depth,          \* usize, kept as its representative modulo 2^64 nearest 0
    list_renderer,       \* Option<ListRenderer>
    in_list_item,        \* bool
    event,               \* the event the loop body is handling
    open,                \* parser: the elements opened and not yet closed
    n,                   \* parser: number of events emitted
    made,                \* per renderer slot, the number of the Start event that made its occupant
    wellformed,          \* every event so far is one the parser can emit
    strict,              \* the events come from the parser (else: any event sequence)
    limit,               \* number of events of the run
    log,                 \* the events handled so far, when traced
    traced,              \* the run keeps its log
    arg,                 \* the argument of a renderer function called on its own
    input,               \* the argument of Document::parse
    doc,                 \* the Document parsed from input
    cmf,                 \* doc.to_cmf()
    reparsed             \* Document::parse(cmf)

vars == <<markdown, pc, result, context, code_renderer, table_renderer,
          blockquote_renderer, list_depth, list_renderer, in_list_item,
          event, open, n, made, wellformed, strict, limit, log, traced,
          arg, input, doc, cmf, reparsed>>

driver == <<context, code_renderer, table_renderer, blockquote_renderer,
            list_depth, list_renderer, in_list_item>>

\* the state of the functions called outside render
unit == <<arg, input, doc, cmf, reparsed>>

(***************************************************************************)
(* Bounds of the model.                                                    *)
(***************************************************************************)
MaxEvents == 6
MaxAnyEvents == 3
MaxListEvents == 9
MaxInlineEvents == 5
MaxLen == 3
MaxTracedEvents == 7
MaxCalls == 3
MaxRows == 3
MaxCols == 2
MaxInput == 5
MaxTurns == 2

(***************************************************************************)
(* Strings.                                                                *)
(***************************************************************************)
NL == "\n"
BACKTICK == "U+0060"
ESC_RESET == "ESC[0m"
WhiteSpace == {" ", NL, "\t"}

Last(s) == s[Len(s)]
Front(s) == SubSeq(s, 1, Len(s) - 1)

RECURSIVE Repeat(_, _)
Repeat(s, k) == IF k <= 0 THEN <<>> ELSE s \o Repeat(s, k - 1)

\* str::ends_with
EndsWith(s, suffix) ==
    /\ Len(s) >= Len(suffix)
    /\ SubSeq(s, Len(s) - Len(suffix) + 1, Len(s)) = suffix

\* str::contains
Contains(s, pat) ==
    \E i \in 1..(Len(s) - Len(pat) + 1) : SubSeq(s, i, i + Len(pat) - 1) = pat

\* str::trim_end: drops the trailing white space
RECURSIVE trim_end(_)
trim_end(s) ==
    IF s # <<>> /\ Last(s) \in WhiteSpace THEN trim_end(Front(s)) ELSE s

\* The glyphs outside ASCII, each one character of the output
TOP_LEFT == "U+250C"
HORIZONTAL == "U+2500"
TOP_RIGHT == "U+2510"
VERTICAL == "U+2502"
BOTTOM_LEFT == "U+2514"
BOTTOM_RIGHT == "U+2518"
TEE_DOWN == "U+252C"
CROSS == "U+253C"
TEE_UP == "U+2534"
TEE_RIGHT == "U+251C"
TEE_LEFT == "U+2524"
QUOTE_BAR == "U+258C"
BULLET == "U+2022"
CHECKED == "U+2611"
UNCHECKED == "U+2610"
E_ACUTE == "U+00E9"

Glyphs == {TOP_LEFT, HORIZONTAL, TOP_RIGHT, VERTICAL, BOTTOM_LEFT, BOTTOM_RIGHT,
           TEE_DOWN, CROSS, TEE_UP, TEE_RIGHT, TEE_LEFT, QUOTE_BAR, BULLET,
           CHECKED, UNCHECKED}

\* str::len is the length in bytes (UTF-8)
Utf8Len(c) == IF c \in Glyphs THEN 3 ELSE IF c = E_ACUTE THEN 2 ELSE 1

RECURSIVE ByteLen(_)
ByteLen(s) == IF s = <<>> THEN 0 ELSE Utf8Len(Head(s)) + ByteLen(Tail(s))

\* str::lines: split at each newline; a final newline ends the last line
\* (cur is what came before s on its first line)
SplitNL(s, cur) ==
    LET at == {i \in 1..Len(s) : s[i] = NL}
        \* where the k-th newline of s is: 0 before the first, Len(s) + 1 past the last
        nth(k) ==
            IF k = 0 THEN 0
            ELSE IF k > Cardinality(at) THEN Len(s) + 1
            ELSE CHOOSE i \in at : Cardinality({j \in at : j <= i}) = k
    IN  [k \in 1..(Cardinality(at) + 1) |->
            (IF k = 1 THEN cur ELSE <<>>) \o SubSeq(s, nth(k - 1) + 1, nth(k) - 1)]

Lines(s) ==
    IF s = <<>> THEN <<>>
    ELSE IF Last(s) = NL THEN SplitNL(Front(s), <<>>)
    ELSE SplitNL(s, <<>>)

\* [String]::join
RECURSIVE Join(_, _)
Join(ss, sep) ==
    IF ss = <<>> THEN <<>>
    ELSE IF Len(ss) = 1 THEN ss[1]
    ELSE ss[1] \o sep \o Join(Tail(ss), sep)

\* format!("{:<width$}", s): pad on the right with spaces to width characters
PadRight(s, width) == s \o Repeat(<<" ">>, width - Len(s))

\* format!("{}", idx) of a usize: its decimal digits
Digit(d) == <<"0", "1", "2", "3", "4", "5", "6", "7", "8", "9">>[d + 1]

RECURSIVE Decimal(_)
Decimal(k) == IF k < 10 THEN <<Digit(k)>> ELSE Decimal(k \div 10) \o <<Digit(k % 10)>>

Max(a, b) == IF a >= b THEN a ELSE b

RECURSIVE MaxOf(_)
MaxOf(ks) == IF ks = <<>> THEN 0 ELSE Max(Head(ks), MaxOf(Tail(ks)))

(***************************************************************************)
(* RenderContext.                                                          *)
(***************************************************************************)
None == [some |-> FALSE]
Some(v) == [some |-> TRUE, v |-> v]

\* a take that leaves the renderer in its slot
take_kept(slot) == slot

\* Option::take: what is left in the slot
take(slot) == None

RenderContext_new(use_colors) ==
    [output |-> <<>>, formatting_stack |-> <<>>, pending_newlines |-> 0,
     use_colors |-> use_colors]

push_str(c, s) == [c EXCEPT !.output = @ \o s, !.pending_newlines = 0]

push_newline(c) == [c EXCEPT !.output = Append(@, NL), !.pending_newlines = @ + 1]

ensure_newline(c) ==
    IF c.output # <<>> /\ ~EndsWith(c.output, <<NL>>) THEN push_newline(c) ELSE c

\* a blank line ensured by the count of pending newlines alone
ensure_blank_line_pending(c) ==
    IF c.output # <<>> /\ c.pending_newlines < 2 THEN push_newline(c) ELSE c

ensure_blank_line(c) ==
    IF c.output # <<>> /\ ~EndsWith(c.output, <<NL, NL>>) /\ c.pending_newlines < 2
    THEN push_newline(c) ELSE c

into_output(c) == Append(trim_end(c.output), NL)

(***************************************************************************)
(* CodeBlockRenderer.                                                      *)
(***************************************************************************)
CodeBlockRenderer_new == [buffer |-> <<>>]

RECURSIVE CodeLines(_, _)
CodeLines(lines, max_len) ==
    IF lines = <<>> THEN <<>>
    ELSE <<VERTICAL, " ">> \o PadRight(Head(lines), max_len) \o <<" ", VERTICAL, NL>>
         \o CodeLines(Tail(lines), max_len)

render_code_block(code) ==
    LET lines == Lines(code)
        max_len == MaxOf([i \in 1..Len(lines) |-> ByteLen(lines[i])])
    IN  IF lines = <<>> THEN <<>>
        ELSE <<TOP_LEFT>> \o Repeat(<<HORIZONTAL>>, max_len + 2) \o <<TOP_RIGHT, NL>>
             \o CodeLines(lines, max_len)
             \o <<BOTTOM_LEFT>> \o Repeat(<<HORIZONTAL>>, max_len + 2) \o <<BOTTOM_RIGHT>>

CodeBlock_handle_text(r, text) == [r EXCEPT !.buffer = @ \o text]
CodeBlock_handle_soft_break(r) == [r EXCEPT !.buffer = Append(@, NL)]
CodeBlock_handle_hard_break(r) == [r EXCEPT !.buffer = Append(@, NL)]
CodeBlock_end(r) == render_code_block(r.buffer)

(***************************************************************************)
(* TableRenderer.                                                          *)
(***************************************************************************)
TableRenderer_new == [rows |-> <<>>, current_row |-> <<>>, current_cell |-> <<>>]

add_cell(r, cell) == [r EXCEPT !.current_row = Append(@, cell)]

finish_row(r) ==
    IF r.current_row # <<>>
    THEN [r EXCEPT !.rows = Append(@, r.current_row), !.current_row = <<>>]
    ELSE r

\* what line 187 would be with cell.chars().count() for cell.len()
WidthsAfterRow_chars(col_widths, row) ==
    [i \in 1..Len(col_widths) |->
        IF i <= Len(row) THEN Max(col_widths[i], Len(row[i])) ELSE col_widths[i]]

\* lines 185-189: the widths after the cells of one row, then of all rows
WidthsAfterRow(col_widths, row) ==
    [i \in 1..Len(col_widths) |->
        IF i <= Len(row) THEN Max(col_widths[i], ByteLen(row[i])) ELSE col_widths[i]]

RECURSIVE WidthsAfter(_, _)
WidthsAfter(col_widths, rows) ==
    IF rows = <<>> THEN col_widths
    ELSE WidthsAfter(WidthsAfterRow(col_widths, Head(rows)), Tail(rows))

\* a border line without its end: the dashes of each column, a junction between two
RECURSIVE BorderCols(_, _, _)
BorderCols(col_widths, i, junction) ==
    IF i > Len(col_widths) THEN <<>>
    ELSE Repeat(<<HORIZONTAL>>, col_widths[i] + 2)
         \o (IF i - 1 < Len(col_widths) - 1 THEN <<junction>> ELSE <<>>)
         \o BorderCols(col_widths, i + 1, junction)

RECURSIVE RowCells(_, _, _)
RowCells(row, col_idx, col_widths) ==
    IF col_idx > Len(row) THEN <<>>
    ELSE <<" ">> \o PadRight(row[col_idx], col_widths[col_idx]) \o <<" ", VERTICAL>>
         \o RowCells(row, col_idx + 1, col_widths)

RECURSIVE TableRows(_, _, _)
TableRows(rows, row_idx, col_widths) ==
    IF row_idx > Len(rows) THEN <<>>
    ELSE <<VERTICAL>> \o RowCells(rows[row_idx], 1, col_widths) \o <<NL>>
         \o (IF row_idx - 1 < Len(rows) - 1
             THEN <<TEE_RIGHT>> \o BorderCols(col_widths, 1, CROSS) \o <<TEE_LEFT, NL>>
             ELSE <<>>)
         \o TableRows(rows, row_idx + 1, col_widths)

TableRenderer_render_table(rows) ==
    LET num_cols == MaxOf([i \in 1..Len(rows) |-> Len(rows[i])])
        col_widths == WidthsAfter([i \in 1..num_cols |-> 0], rows)
    IN  IF rows = <<>> THEN <<>>
        ELSE <<TOP_LEFT>> \o BorderCols(col_widths, 1, TEE_DOWN) \o <<TOP_RIGHT, NL>>
             \o TableRows(rows, 1, col_widths)
             \o <<BOTTOM_LEFT>> \o BorderCols(col_widths, 1, TEE_UP) \o <<BOTTOM_RIGHT>>

Table_handle_text(r, text) == [r EXCEPT !.current_cell = @ \o text]
Table_handle_soft_break(r) == [r EXCEPT !.current_cell = Append(@, " ")]
Table_handle_hard_break(r) == [r EXCEPT !.current_cell = Append(@, NL)]
Table_end(r) == TableRenderer_render_table(r.rows)

start_cell(r) == [r EXCEPT !.current_cell = <<>>]
end_cell(r) == [add_cell(r, r.current_cell) EXCEPT !.current_cell = <<>>]
start_row(r) == [r EXCEPT !.current_row = <<>>]
end_row(r) == finish_row(r)

(***************************************************************************)
(* BlockquoteRenderer.                                                     *)
(***************************************************************************)
BlockquoteRenderer_new == [lines |-> <<>>, current_line |-> <<>>]

add_prefix_to_lines(text) ==
    LET lines == Lines(text)
    IN  Join([i \in 1..Len(lines) |-> <<QUOTE_BAR, " ">> \o lines[i]], <<NL>>)

Blockquote_handle_text(r, text) == [r EXCEPT !.current_line = @ \o text]

Blockquote_handle_soft_break(r) ==
    [r EXCEPT !.lines = Append(@, r.current_line), !.current_line = <<>>]

Blockquote_handle_hard_break(r) ==
    [r EXCEPT !.lines = Append(@, r.current_line), !.current_line = <<>>]

Blockquote_end(r) ==
    LET lines == IF r.current_line # <<>> THEN Append(r.lines, r.current_line) ELSE r.lines
    IN  add_prefix_to_lines(Join(lines, <<NL>>))

(***************************************************************************)
(* ListRenderer.                                                           *)
(***************************************************************************)
ListRenderer_new(ordered, depth) ==
    [depth |-> depth, is_ordered |-> ordered,
     item_indices |-> IF ordered THEN <<0>> ELSE <<>>,
     in_item |-> FALSE, buffer |-> <<>>]

\* the renderer after start_item (depth >= 1)
start_item_renderer(r) ==
    [r EXCEPT !.in_item = TRUE,
              !.item_indices = IF r.is_ordered /\ @ # <<>>
                               THEN [@ EXCEPT ![Len(@)] = @ + 1] ELSE @]

\* what start_item appends to the output (depth >= 1)
start_item_marker(r, depth) ==
    Repeat(<<" ", " ">>, depth - 1)
    \o (IF r.is_ordered
        THEN IF r.item_indices # <<>>
             THEN Decimal(Last(r.item_indices) + 1) \o <<".", " ">> ELSE <<>>
        ELSE <<BULLET, " ">>)

(***************************************************************************)
(* Inline decoration (render_text, render_inline_code).  The styles are    *)
(* those of the colored crate: the style's escape sequence, the text with  *)
(* the style restarted after each reset inside it, the reset sequence.     *)
(***************************************************************************)
StyleStart(state) ==
    CASE state = "Bold" -> "ESC[1m"
      [] state = "Italic" -> "ESC[3m"
      [] state = "Link" -> "ESC[4;34m"
      [] state = "Reversed" -> "ESC[7m"

RECURSIVE RestartAfterReset(_, _)
RestartAfterReset(s, start) ==
    IF s = <<>> THEN <<>>
    ELSE IF Head(s) = ESC_RESET THEN <<ESC_RESET, start>> \o RestartAfterReset(Tail(s), start)
    ELSE <<Head(s)>> \o RestartAfterReset(Tail(s), start)

Styled(s, state) ==
    <<StyleStart(state)>> \o RestartAfterReset(s, StyleStart(state)) \o <<ESC_RESET>>

\* lines 629-635: the styles of the stack applied from the last pushed to the first
RECURSIVE ApplyStack(_, _)
ApplyStack(s, formatting_stack) ==
    IF formatting_stack = <<>> THEN s
    ELSE ApplyStack(Styled(s, Last(formatting_stack)), Front(formatting_stack))

\* the styles applied whatever the color flag
render_text_styled(use_colors, text, formatting_stack) ==
    ApplyStack(text, formatting_stack)

render_text(use_colors, text, formatting_stack) ==
    IF ~use_colors THEN text ELSE ApplyStack(text, formatting_stack)

\* inline code in reverse video whatever the color flag
render_inline_code_reversed(use_colors, code) == Styled(code, "Reversed")

render_inline_code(use_colors, code) ==
    IF ~use_colors THEN code ELSE Styled(code, "Reversed")

\* the list and digit patterns looked for without their final space
has_markdown_syntax_loose(text) ==
    \/ Contains(text, <<"*">>) \/ Contains(text, <<BACKTICK>>) \/ Contains(text, <<"#">>)
    \/ Contains(text, <<"[">>) \/ Contains(text, <<"-">>) \/ Contains(text, <<"1", ".">>)
    \/ Contains(text, <<NL>>)

has_markdown_syntax(text) ==
    \/ Contains(text, <<"*", "*">>) \/ Contains(text, <<"*">>) \/ Contains(text, <<BACKTICK>>)
    \/ Contains(text, <<"#">>) \/ Contains(text, <<"[">>) \/ Contains(text, <<"-", " ">>)
    \/ Contains(text, <<"1", ".", " ">>) \/ Contains(text, <<NL>>)

(***************************************************************************)
(* Events, and the parser that emits them (pulldown_cmark, line 419).      *)
(***************************************************************************)
Ev(kind, tag) ==
    [kind |-> kind, tag |-> tag, ordered |-> FALSE, text |-> <<>>, checked |-> FALSE]

Start(tag) == Ev("Start", tag)
End(tag) == Ev("End", tag)
StartListEv(ordered) == [Start("List") EXCEPT !.ordered = ordered]
TextEv(text) == [Ev("Text", "") EXCEPT !.text = text]
CodeEv(code) == [Ev("Code", "") EXCEPT !.text = code]
TaskEv(checked) == [Ev("TaskListMarker", "") EXCEPT !.checked = checked]
NoEvent == Ev("None", "")

\* the payloads of the Text and Code events
Texts == {<<"a">>, <<"b", "c">>}
Codes == {<<"x">>}

BlockTags == {"Paragraph", "Heading", "List", "CodeBlock", "BlockQuote", "Table"}
StyleTags == {"Emphasis", "Strong", "Link"}
InlineTags == StyleTags \cup {"Strikethrough"}

Top == IF open = <<>> THEN "Document" ELSE Last(open).tag

InContainer == Top \in {"Document", "BlockQuote", "Item"}
InInline == Top \in {"Paragraph", "Heading", "TableCell", "Item"} \cup InlineTags

\* a line break follows inline content, and not inside a heading or a table cell
BreakOk ==
    /\ InInline
    /\ \A i \in 1..Len(open) : open[i].tag \notin {"Heading", "TableCell"}
    /\ \/ event.kind \in {"Text", "Code"}
       \/ event.kind = "End" /\ event.tag \in InlineTags

\* the events the parser can emit next
CanEmit(e) ==
    CASE e.kind = "Start" ->
            CASE e.tag \in BlockTags -> InContainer
              [] e.tag = "Item" -> Top = "List"
              [] e.tag = "TableHead" -> Top = "Table" /\ event = Start("Table")
              [] e.tag = "TableRow" ->
                    Top = "Table" /\ event \in {End("TableHead"), End("TableRow")}
              [] e.tag = "TableCell" -> Top \in {"TableHead", "TableRow"}
              [] e.tag \in InlineTags -> InInline
              [] OTHER -> FALSE
      [] e.kind = "End" ->
            /\ Top = e.tag
            /\ e.tag \in {"Paragraph", "Emphasis", "Strong"} => event # Start(e.tag)
            /\ e.tag = "List" => Last(open).items >= 1
            /\ e.tag = "Table" => event \in {End("TableHead"), End("TableRow")}
            /\ e.tag \in {"TableHead", "TableRow"} => event = End("TableCell")
      [] e.kind = "Text" -> InInline \/ Top = "CodeBlock"
      [] e.kind = "Code" -> InInline
      [] e.kind \in {"SoftBreak", "HardBreak"} -> BreakOk
      [] e.kind = "Html" -> InContainer
      [] e.kind = "TaskListMarker" -> Top = "Item" /\ event = Start("Item")
      [] OTHER -> FALSE

\* the parser's stack after e; an Item counts in the list it belongs to
OpenAfter(e) ==
    CASE e.kind = "Start" ->
            LET counted == IF e.tag = "Item" /\ Top = "List"
                           THEN [open EXCEPT ![Len(open)].items = @ + 1] ELSE open
            IN  Append(counted, [tag |-> e.tag, id |-> n + 1, ordered |-> e.ordered,
                                 items |-> 0])
      [] e.kind = "End" -> IF Top = e.tag THEN Front(open) ELSE open
      [] OTHER -> open

\* line 429: the loop takes the next event
Consume(e) ==
    /\ pc = "loop"
    /\ n < limit
    /\ strict => CanEmit(e)
    /\ event' = e
    /\ n' = n + 1
    /\ open' = OpenAfter(e)
    /\ wellformed' = (wellformed /\ CanEmit(e))
    /\ log' = IF traced THEN Append(log, e) ELSE log
    /\ UNCHANGED <<markdown, result, strict, limit, traced, unit>>

(***************************************************************************)
(* MarkdownRenderer::render, Event::Start.                                 *)
(***************************************************************************)
StartParagraph ==
    /\ Consume(Start("Paragraph"))
    /\ context' = ensure_blank_line(context)
    /\ UNCHANGED <<pc, code_renderer, table_renderer, blockquote_renderer, list_depth,
                   list_renderer, in_list_item, made>>

StartHeading ==
    /\ Consume(Start("Heading"))
    /\ context' = [ensure_newline(context) EXCEPT !.pending_newlines = 0]
    /\ UNCHANGED <<pc, code_renderer, table_renderer, blockquote_renderer, list_depth,
                   list_renderer, in_list_item, made>>

StartList ==
    \E ordered \in BOOLEAN :
        /\ Consume(StartListEv(ordered))
        /\ list_depth' = list_depth + 1
        /\ list_renderer' = Some(ListRenderer_new(ordered, list_depth'))
        /\ made' = [made EXCEPT !.list = n + 1]
        /\ UNCHANGED <<pc, context, code_renderer, table_renderer, blockquote_renderer,
                       in_list_item>>

\* start_item(depth) computes depth - 1: with depth 0 the subtraction overflows, and
\* the loop of the wrapped count does not end before memory does
StartItem ==
    /\ Consume(Start("Item"))
    /\ in_list_item' = TRUE
    /\ IF list_renderer.some
       THEN IF list_depth >= 1
            THEN /\ context' = [context EXCEPT
                        !.output = @ \o start_item_marker(list_renderer.v, list_depth)]
                 /\ list_renderer' = Some(start_item_renderer(list_renderer.v))
                 /\ pc' = pc
            ELSE /\ pc' = "panicked"
                 /\ UNCHANGED <<context, list_renderer>>
       ELSE UNCHANGED <<pc, context, list_renderer>>
    /\ UNCHANGED <<code_renderer, table_renderer, blockquote_renderer, list_depth, made>>

StartCodeBlock ==
    /\ Consume(Start("CodeBlock"))
    /\ code_renderer' = Some(CodeBlockRenderer_new)
    /\ made' = [made EXCEPT !.code = n + 1]
    /\ UNCHANGED <<pc, context, table_renderer, blockquote_renderer, list_depth,
                   list_renderer, in_list_item>>

StartBlockQuote ==
    /\ Consume(Start("BlockQuote"))
    /\ blockquote_renderer' = Some(BlockquoteRenderer_new)
    /\ context' = ensure_newline(context)
    /\ made' = [made EXCEPT !.blockquote = n + 1]
    /\ UNCHANGED <<pc, code_renderer, table_renderer, list_depth, list_renderer,
                   in_list_item>>

StartTable ==
    /\ Consume(Start("Table"))
    /\ table_renderer' = Some(TableRenderer_new)
    /\ context' = ensure_newline(context)
    /\ made' = [made EXCEPT !.table = n + 1]
    /\ UNCHANGED <<pc, code_renderer, blockquote_renderer, list_depth, list_renderer,
                   in_list_item>>

StartTableRow ==
    \E tag \in {"TableHead", "TableRow"} :
        /\ Consume(Start(tag))
        /\ table_renderer' = IF table_renderer.some
                             THEN Some(start_row(table_renderer.v)) ELSE table_renderer
        /\ UNCHANGED <<pc, context, code_renderer, blockquote_renderer, list_depth,
                       list_renderer, in_list_item, made>>

StartTableCell ==
    /\ Consume(Start("TableCell"))
    /\ table_renderer' = IF table_renderer.some
                         THEN Some(start_cell(table_renderer.v)) ELSE table_renderer
    /\ UNCHANGED <<pc, context, code_renderer, blockquote_renderer, list_depth,
                   list_renderer, in_list_item, made>>

\* FormattingState of an inline tag
StateOf(tag) ==
    CASE tag = "Emphasis" -> "Italic"
      [] tag = "Strong" -> "Bold"
      [] tag = "Link" -> "Link"

push_back(formatting_stack, state) == Append(formatting_stack, state)

\* a pop that is not done
pop_back_kept(formatting_stack) == formatting_stack

pop_back(formatting_stack) ==
    IF formatting_stack = <<>> THEN <<>> ELSE Front(formatting_stack)

StartStyle(tag) ==
    /\ Consume(Start(tag))
    /\ context' = [context EXCEPT !.formatting_stack = push_back(@, StateOf(tag))]
    /\ UNCHANGED <<pc, code_renderer, table_renderer, blockquote_renderer, list_depth,
                   list_renderer, in_list_item, made>>

StartInline == \E tag \in StyleTags : StartStyle(tag)

\* the arm _ => {}
StartOther ==
    /\ Consume(Start("Strikethrough"))
    /\ UNCHANGED <<pc, context, code_renderer, table_renderer, blockquote_renderer,
                   list_depth, list_renderer, in_list_item, made>>

(***************************************************************************)
(* MarkdownRenderer::render, Event::End.                                   *)
(***************************************************************************)
EndParagraph ==
    /\ Consume(End("Paragraph"))
    /\ context' = [push_newline(context) EXCEPT !.pending_newlines = 1]
    /\ UNCHANGED <<pc, code_renderer, table_renderer, blockquote_renderer, list_depth,
                   list_renderer, in_list_item, made>>

EndHeading ==
    /\ Consume(End("Heading"))
    /\ context' = [push_newline(push_newline(context)) EXCEPT !.pending_newlines = 2]
    /\ UNCHANGED <<pc, code_renderer, table_renderer, blockquote_renderer, list_depth,
                   list_renderer, in_list_item, made>>

\* list_depth -= 1 on a usize: at 0 a build with overflow checks panics, and one
\* without wraps to usize::MAX, kept here as -1
\* what lines 500-507 would be without line 505, list_renderer = None
EndList_kept ==
    /\ Consume(End("List"))
    /\ list_depth' = list_depth - 1
    /\ context' = IF list_depth' = 0
                  THEN [push_newline(context) EXCEPT !.pending_newlines = 1]
                  ELSE context
    /\ UNCHANGED <<pc, list_renderer, made, code_renderer, table_renderer,
                   blockquote_renderer, in_list_item>>

EndList ==
    \E overflow_checks \in (IF list_depth = 0 THEN BOOLEAN ELSE {FALSE}) :
        /\ Consume(End("List"))
        /\ IF list_depth = 0 /\ overflow_checks
           THEN /\ pc' = "panicked"
                /\ UNCHANGED <<context, list_depth, list_renderer, made>>
           ELSE /\ pc' = pc
                /\ list_depth' = list_depth - 1
                /\ IF list_depth' = 0
                   THEN /\ context' = [push_newline(context) EXCEPT !.pending_newlines = 1]
                        /\ list_renderer' = None
                        /\ made' = [made EXCEPT !.list = 0]
                   ELSE UNCHANGED <<context, list_renderer, made>>
        /\ UNCHANGED <<code_renderer, table_renderer, blockquote_renderer, in_list_item>>

EndItem ==
    /\ Consume(End("Item"))
    /\ in_list_item' = FALSE
    /\ context' = [push_newline(context) EXCEPT !.pending_newlines = 1]
    /\ UNCHANGED <<pc, code_renderer, table_renderer, blockquote_renderer, list_depth,
                   list_renderer, made>>

\* the context after the End of a block whose renderer slot is slot and whose
\* rendering, when the slot is occupied, is rendered
AfterBlockEnd(slot, rendered) ==
    [push_newline(IF slot.some THEN push_str(context, rendered) ELSE context)
        EXCEPT !.pending_newlines = 1]

EndCodeBlock ==
    /\ Consume(End("CodeBlock"))
    /\ context' = AfterBlockEnd(code_renderer,
                     IF code_renderer.some THEN CodeBlock_end(code_renderer.v) ELSE <<>>)
    /\ code_renderer' = take(code_renderer)
    /\ made' = [made EXCEPT !.code = IF code_renderer'.some THEN @ ELSE 0]
    /\ UNCHANGED <<pc, table_renderer, blockquote_renderer, list_depth, list_renderer,
                   in_list_item>>

EndBlockQuote ==
    /\ Consume(End("BlockQuote"))
    /\ context' = AfterBlockEnd(blockquote_renderer,
                     IF blockquote_renderer.some
                     THEN Blockquote_end(blockquote_renderer.v) ELSE <<>>)
    /\ blockquote_renderer' = take(blockquote_renderer)
    /\ made' = [made EXCEPT !.blockquote = IF blockquote_renderer'.some THEN @ ELSE 0]
    /\ UNCHANGED <<pc, code_renderer, table_renderer, list_depth, list_renderer,
                   in_list_item>>

EndTable ==
    /\ Consume(End("Table"))
    /\ context' = AfterBlockEnd(table_renderer,
                     IF table_renderer.some THEN Table_end(table_renderer.v) ELSE <<>>)
    /\ table_renderer' = take(table_renderer)
    /\ made' = [made EXCEPT !.table = IF table_renderer'.some THEN @ ELSE 0]
    /\ UNCHANGED <<pc, code_renderer, blockquote_renderer, list_depth, list_renderer,
                   in_list_item>>

EndTableRow ==
    \E tag \in {"TableRow", "TableHead"} :
        /\ Consume(End(tag))
        /\ table_renderer' = IF table_renderer.some
                             THEN Some(end_row(table_renderer.v)) ELSE table_renderer
        /\ UNCHANGED <<pc, context, code_renderer, blockquote_renderer, list_depth,
                       list_renderer, in_list_item, made>>

EndTableCell ==
    /\ Consume(End("TableCell"))
    /\ table_renderer' = IF table_renderer.some
                         THEN Some(end_cell(table_renderer.v)) ELSE table_renderer
    /\ UNCHANGED <<pc, context, code_renderer, blockquote_renderer, list_depth,
                   list_renderer, in_list_item, made>>

EndStyle(tag) ==
    /\ Consume(End(tag))
    /\ context' = [context EXCEPT !.formatting_stack = pop_back(@)]
    /\ UNCHANGED <<pc, code_renderer, table_renderer, blockquote_renderer, list_depth,
                   list_renderer, in_list_item, made>>

EndInline == \E tag \in StyleTags : EndStyle(tag)

EndOther ==
    /\ Consume(End("Strikethrough"))
    /\ UNCHANGED <<pc, context, code_renderer, table_renderer, blockquote_renderer,
                   list_depth, list_renderer, in_list_item, made>>

(***************************************************************************)
(* MarkdownRenderer::render, the other events.                             *)
(***************************************************************************)
Text ==
    \E text \in Texts :
        /\ Consume(TextEv(text))
        /\ IF code_renderer.some
           THEN /\ code_renderer' = Some(CodeBlock_handle_text(code_renderer.v, text))
                /\ UNCHANGED <<context, table_renderer, blockquote_renderer>>
           ELSE IF table_renderer.some
           THEN /\ table_renderer' = Some(Table_handle_text(table_renderer.v, text))
                /\ UNCHANGED <<context, code_renderer, blockquote_renderer>>
           ELSE IF blockquote_renderer.some
           THEN /\ blockquote_renderer' =
                        Some(Blockquote_handle_text(blockquote_renderer.v, text))
                /\ UNCHANGED <<context, code_renderer, table_renderer>>
           ELSE /\ context' = push_str(context,
                        render_text(context.use_colors, text, context.formatting_stack))
                /\ UNCHANGED <<code_renderer, table_renderer, blockquote_renderer>>
        /\ UNCHANGED <<pc, list_depth, list_renderer, in_list_item, made>>

SoftBreak ==
    /\ Consume(Ev("SoftBreak", ""))
    /\ IF code_renderer.some
       THEN /\ code_renderer' = Some(CodeBlock_handle_soft_break(code_renderer.v))
            /\ UNCHANGED <<context, table_renderer, blockquote_renderer>>
       ELSE IF table_renderer.some
       THEN /\ table_renderer' = Some(Table_handle_soft_break(table_renderer.v))
            /\ UNCHANGED <<context, code_renderer, blockquote_renderer>>
       ELSE IF blockquote_renderer.some
       THEN /\ blockquote_renderer' =
                    Some(Blockquote_handle_soft_break(blockquote_renderer.v))
            /\ UNCHANGED <<context, code_renderer, table_renderer>>
       ELSE /\ context' = push_str(context, <<" ">>)
            /\ UNCHANGED <<code_renderer, table_renderer, blockquote_renderer>>
    /\ UNCHANGED <<pc, list_depth, list_renderer, in_list_item, made>>

\* lines 595-601; with list_depth wrapped below 0 the indentation loop does not end
\* before memory does
HardBreakInline(c) ==
    IF in_list_item /\ list_depth # 0
    THEN push_str(push_newline(c), Repeat(<<" ", " ">>, list_depth - 1) \o <<" ", " ">>)
    ELSE push_newline(c)

HardBreak ==
    /\ Consume(Ev("HardBreak", ""))
    /\ IF code_renderer.some
       THEN /\ code_renderer' = Some(CodeBlock_handle_hard_break(code_renderer.v))
            /\ UNCHANGED <<pc, context, table_renderer, blockquote_renderer>>
       ELSE IF table_renderer.some
       THEN /\ table_renderer' = Some(Table_handle_hard_break(table_renderer.v))
            /\ UNCHANGED <<pc, context, code_renderer, blockquote_renderer>>
       ELSE IF blockquote_renderer.some
       THEN /\ blockquote_renderer' =
                    Some(Blockquote_handle_hard_break(blockquote_renderer.v))
            /\ UNCHANGED <<pc, context, code_renderer, table_renderer>>
       ELSE IF in_list_item /\ list_depth < 0
       THEN /\ pc' = "panicked"
            /\ UNCHANGED <<context, code_renderer, table_renderer, blockquote_renderer>>
       ELSE /\ context' = HardBreakInline(context)
            /\ UNCHANGED <<pc, code_renderer, table_renderer, blockquote_renderer>>
    /\ UNCHANGED <<list_depth, list_renderer, in_list_item, made>>

Html ==
    /\ Consume(Ev("Html", ""))
    /\ UNCHANGED <<pc, context, code_renderer, table_renderer, blockquote_renderer,
                   list_depth, list_renderer, in_list_item, made>>

Code ==
    \E code \in Codes :
        /\ Consume(CodeEv(code))
        /\ context' = push_str(context, render_inline_code(context.use_colors, code))
        /\ UNCHANGED <<pc, code_renderer, table_renderer, blockquote_renderer,
                       list_depth, list_renderer, in_list_item, made>>

TaskListMarker ==
    \E checked \in BOOLEAN :
        /\ Consume(TaskEv(checked))
        /\ context' = push_str(context,
                         IF checked THEN <<CHECKED, " ">> ELSE <<UNCHECKED, " ">>)
        /\ UNCHANGED <<pc, code_renderer, table_renderer, blockquote_renderer,
                       list_depth, list_renderer, in_list_item, made>>

\* line 618: the parser has no more events
Finish ==
    /\ pc = "loop"
    /\ strict => open = <<>>
    /\ pc' = "done"
    /\ result' = into_output(context)
    /\ UNCHANGED <<markdown, driver, event, open, n, made, wellformed, strict, limit,
                   log, traced, unit>>

(***************************************************************************)
(* MarkdownRenderer::render, lines 413-427.                                *)
(***************************************************************************)
Alphabet == {"a", " ", "*", BACKTICK, "#", "[", "-", "1", ".", NL}

Strings(chars, len) == UNION {[1..k -> chars] : k \in 0..len}

FastPath ==
    /\ pc = "start"
    /\ ~has_markdown_syntax(markdown)
    /\ pc' = "done"
    /\ result' = markdown
    /\ UNCHANGED <<markdown, driver, event, open, n, made, wellformed, strict, limit,
                   log, traced, unit>>

SlowPath ==
    /\ pc = "start"
    /\ has_markdown_syntax(markdown)
    /\ pc' = "loop"
    /\ UNCHANGED <<markdown, result, driver, event, open, n, made, wellformed, strict,
                   limit, log, traced, unit>>

(***************************************************************************)
(* Specifications.                                                         *)
(***************************************************************************)
\* no function is called outside render
NoCalls ==
    /\ arg = <<>>
    /\ input = <<>>
    /\ doc = <<>>
    /\ cmf = <<>>
    /\ reparsed = <<>>

InitSlots ==
    /\ code_renderer = None
    /\ table_renderer = None
    /\ blockquote_renderer = None
    /\ list_depth = 0
    /\ list_renderer = None
    /\ in_list_item = FALSE
    /\ event = NoEvent
    /\ open = <<>>
    /\ n = 0
    /\ made = [code |-> 0, table |-> 0, blockquote |-> 0, list |-> 0]
    /\ wellformed = TRUE
    /\ log = <<>>

InitLocals(use_colors) ==
    /\ result = <<>>
    /\ context = RenderContext_new(use_colors)
    /\ InitSlots

\* the loop of render on a text that has markdown syntax
InitLoop(events_from_parser, events, colors) ==
    /\ markdown \in {<<"*">>}
    /\ pc = "loop"
    /\ \E use_colors \in colors : InitLocals(use_colors)
    /\ strict = events_from_parser
    /\ limit = events
    /\ traced = FALSE
    /\ NoCalls

\* the renderer of the tests (renderer_no_colors) on the events of the parser
Init == InitLoop(TRUE, MaxEvents, {FALSE})

StartEvent ==
    \/ StartParagraph \/ StartHeading \/ StartList \/ StartItem \/ StartCodeBlock
    \/ StartBlockQuote \/ StartTable \/ StartTableRow \/ StartTableCell
    \/ StartInline

EndEvent ==
    \/ EndParagraph \/ EndHeading \/ EndList \/ EndItem \/ EndCodeBlock
    \/ EndBlockQuote \/ EndTable \/ EndTableRow \/ EndTableCell
    \/ EndInline

Next ==
    \/ StartEvent \/ EndEvent
    \/ Text \/ SoftBreak \/ HardBreak \/ Html \/ Code \/ TaskListMarker
    \/ Finish

Spec == Init /\ [][Next]_vars

\* the driver on any sequence of events
InitAny == InitLoop(FALSE, MaxAnyEvents, {FALSE})

NextAny == Next \/ StartOther \/ EndOther

SpecAny == InitAny /\ [][NextAny]_vars

\* the driver on the events of nested lists
InitList == InitLoop(TRUE, MaxListEvents, {FALSE})

NextList == StartList \/ StartItem \/ EndItem \/ EndList \/ Text \/ Finish

SpecList == InitList /\ [][NextList]_vars

\* the driver on any sequence of paragraph and inline style events
InitInline == InitLoop(FALSE, MaxInlineEvents, {FALSE})

NextInline ==
    \/ StartParagraph \/ EndParagraph \/ StartInline
    \/ EndInline \/ Text \/ Finish

SpecInline == InitInline /\ [][NextInline]_vars

\* the driver on the events of paragraphs and blockquotes, the events kept in log
InitTraced ==
    /\ markdown \in {<<"*">>}
    /\ pc = "loop"
    /\ InitLocals(FALSE)
    /\ strict = TRUE
    /\ limit = MaxTracedEvents
    /\ traced = TRUE
    /\ NoCalls

NextTraced ==
    \/ StartBlockQuote \/ EndBlockQuote \/ StartParagraph \/ EndParagraph
    \/ StartInline \/ EndInline \/ Text \/ Code \/ SoftBreak \/ HardBreak
    \/ Finish

SpecTraced == InitTraced /\ [][NextTraced]_vars

\* render on every short text, up to the parser
InitRender ==
    /\ markdown \in Strings(Alphabet, MaxLen)
    /\ pc = "start"
    /\ \E use_colors \in BOOLEAN : InitLocals(use_colors)
    /\ strict = TRUE
    /\ limit = 0
    /\ traced = FALSE
    /\ NoCalls

NextRender == FastPath \/ SlowPath

SpecRender == InitRender /\ [][NextRender]_vars

(***************************************************************************)
(* The conversation format (src/src/lib.rs).  A Document is the sequence   *)
(* of its turns.                                                           *)
(***************************************************************************)
\* lines 165-191
parse_user_block(lines) ==
    LET content == Join(lines, <<NL>>)
        first_line == lines[1]
        \* str::find(':'), counted from 1; 0 when there is none
        colon_pos == IF Contains(first_line, <<":">>)
                     THEN CHOOSE i \in 1..Len(first_line) :
                             /\ first_line[i] = ":"
                             /\ \A j \in 1..(i - 1) : first_line[j] # ":"
                     ELSE 0
        RECURSIVE trim_start(_)
        trim_start(s) ==
            IF s # <<>> /\ Head(s) \in WhiteSpace THEN trim_start(Tail(s)) ELSE s
        username == SubSeq(first_line, 2, colon_pos - 1)
        first_content == trim_start(SubSeq(first_line, colon_pos + 1, Len(first_line)))
        rest == IF Len(lines) > 1 THEN <<NL>> \o Join(Tail(lines), <<NL>>) ELSE <<>>
    IN  IF lines # <<>> /\ first_line # <<>> /\ Head(first_line) = "@" /\ colon_pos > 0
        THEN [username |-> Some(username), content |-> first_content \o rest]
        ELSE [username |-> None, content |-> content]

\* the lines of the assistant joined as they are
trim_assistant_block_all(lines) == Join(lines, <<NL>>)

\* lines 193-207
trim_assistant_block(lines) ==
    LET blank(l) == \A i \in 1..Len(l) : l[i] \in WhiteSpace
        filled == {i \in 1..Len(lines) : ~blank(lines[i])}
        \* position and rposition, counted from 0
        start == IF filled = {} THEN 0
                 ELSE (CHOOSE i \in filled : \A j \in filled : i <= j) - 1
        end == IF filled = {} THEN 0
               ELSE CHOOSE i \in filled : \A j \in filled : i >= j
    IN  IF start >= end THEN <<>>
        ELSE Join(SubSeq(lines, start + 1, end), <<NL>>)

\* lines 75-121
parse(text) ==
    LET strip_prefix(s, c) == IF s # <<>> /\ Head(s) = c THEN Tail(s) ELSE s
        Turn(user_lines, assistant_lines) ==
            [user |-> parse_user_block(user_lines),
             assistant |-> trim_assistant_block(assistant_lines)]
        RECURSIVE for_line(_, _)
        for_line(lines, st) ==
            IF lines = <<>> THEN st
            ELSE LET line == Head(lines)
                     is_user_line == line # <<>> /\ Head(line) = ">"
                     finalized ==
                        IF st.seen_first_user /\ ~st.in_user_block
                              /\ st.current_user_lines # <<>>
                        THEN [st EXCEPT
                                !.turns = Append(@, Turn(st.current_user_lines,
                                                         st.current_assistant_lines)),
                                !.current_user_lines = <<>>,
                                !.current_assistant_lines = <<>>]
                        ELSE st
                     content == strip_prefix(strip_prefix(line, ">"), " ")
                 IN  for_line(Tail(lines),
                        IF is_user_line
                        THEN [finalized EXCEPT
                                !.in_user_block = TRUE,
                                !.seen_first_user = TRUE,
                                !.current_user_lines = Append(@, content)]
                        ELSE [st EXCEPT
                                !.in_user_block = FALSE,
                                !.current_assistant_lines =
                                    IF st.seen_first_user THEN Append(@, line) ELSE @])
        last == for_line(Lines(text),
                    [turns |-> <<>>, current_user_lines |-> <<>>,
                     current_assistant_lines |-> <<>>, in_user_block |-> FALSE,
                     seen_first_user |-> FALSE])
    IN  IF last.current_user_lines # <<>>
        THEN Append(last.turns, Turn(last.current_user_lines, last.current_assistant_lines))
        ELSE last.turns

\* lines 40-72
to_cmf(turns) ==
    LET user_content(turn) ==
            IF turn.user.username.some
            THEN <<"@">> \o turn.user.username.v \o <<":", " ">> \o turn.user.content
            ELSE turn.user.content
        user_lines(turn) ==
            LET lines == Lines(user_content(turn))
            IN  Join([k \in 1..Len(lines) |-> <<">", " ">> \o lines[k] \o <<NL>>], <<>>)
        for_turn(i) ==
            (IF i - 1 > 0 THEN <<NL, NL>> ELSE <<>>)
            \o user_lines(turns[i])
            \o (IF turns[i].assistant # <<>> THEN turns[i].assistant \o <<NL>> ELSE <<>>)
    IN  trim_end(Join([i \in 1..Len(turns) |-> for_turn(i)], <<>>))

\* lines 130-155: the Issues, one for every line that starts with '>' and comes after
\* a line that is not blank
check(text) ==
    LET lines == Lines(text)
        RECURSIVE for_line(_, _, _)
        for_line(line_num, prev_was_blank_or_start, issues) ==
            IF line_num > Len(lines) THEN issues
            ELSE LET line == lines[line_num]
                 IN  for_line(line_num + 1,
                              \A j \in 1..Len(line) : line[j] \in WhiteSpace,
                              IF line # <<>> /\ Head(line) = ">"
                                 /\ ~prev_was_blank_or_start
                              THEN Append(issues,
                                     [line |-> line_num,
                                      message |-> "User line not preceded by blank line or start of file"])
                              ELSE issues)
    IN  for_line(1, TRUE, <<>>)

(***************************************************************************)
(* The functions called on their own.                                      *)
(***************************************************************************)
\* a table rendered with a newline after its bottom border
\* what render_table would be if every row were filled up to the number of columns
render_table_padded(rows) ==
    LET num_cols == MaxOf([r \in 1..Len(rows) |-> Len(rows[r])])
    IN  TableRenderer_render_table(
            [r \in 1..Len(rows) |->
                [i \in 1..num_cols |->
                    IF i <= Len(rows[r]) THEN rows[r][i] ELSE <<>>]])

render_table_newline(rows) ==
    IF rows = <<>> THEN <<>> ELSE TableRenderer_render_table(rows) \o <<NL>>

\* lines 651-712: the public render_table
render_table(rows) ==
    LET num_cols == MaxOf([r \in 1..Len(rows) |-> Len(rows[r])])
        \* lines 659-663: the widths after the rows from r on
        RECURSIVE col_widths_from(_, _)
        col_widths_from(widths, r) ==
            IF r > Len(rows) THEN widths
            ELSE col_widths_from(
                    [i \in 1..num_cols |->
                        IF i <= Len(rows[r]) THEN Max(widths[i], ByteLen(rows[r][i]))
                        ELSE widths[i]], r + 1)
        col_widths == col_widths_from([i \in 1..num_cols |-> 0], 1)
        border(left, junction, right) ==
            <<left>>
            \o Join([i \in 1..num_cols |-> Repeat(<<HORIZONTAL>>, col_widths[i] + 2)],
                    <<junction>>)
            \o <<right>>
        cells(row) ==
            Join([col_idx \in 1..Len(row) |->
                    <<" ">> \o PadRight(row[col_idx], col_widths[col_idx])
                    \o <<" ", VERTICAL>>], <<>>)
        row_lines(row_idx) ==
            <<VERTICAL>> \o cells(rows[row_idx]) \o <<NL>>
            \o (IF row_idx - 1 < Len(rows) - 1
                THEN border(TEE_RIGHT, CROSS, TEE_LEFT) \o <<NL>> ELSE <<>>)
    IN  IF rows = <<>> THEN <<>>
        ELSE border(TOP_LEFT, TEE_DOWN, TOP_RIGHT) \o <<NL>>
             \o Join([row_idx \in 1..Len(rows) |-> row_lines(row_idx)], <<>>)
             \o border(BOTTOM_LEFT, TEE_UP, BOTTOM_RIGHT)

\* the cells and the rows given to render_table
Cells == {<<"a">>, <<E_ACUTE, "b">>}
Tables == Strings(Strings(Cells, MaxCols), MaxRows)

\* the buffers given to render_code_block
Buffers == Strings({"a", E_ACUTE, NL}, MaxLen)

\* the texts given to Document::parse
Inputs == Strings({">", " ", "@", ":", "a", NL}, MaxInput)

\* the Documents made by a caller and given to to_cmf
Documents ==
    Strings([user : [username : {None, Some(<<"u">>)},
                     content : {<<"a">>, <<"a", NL, "b">>}],
             assistant : {<<>>, <<"c">>}], MaxTurns)

\* the RenderContexts on which ensure_blank_line is called
Contexts ==
    [output : Strings({"a", NL}, MaxLen), formatting_stack : {<<>>},
     pending_newlines : 0..MaxLen, use_colors : {FALSE}]

\* a function called outside render, on each of its arguments
InitUnit ==
    /\ markdown = <<>>
    /\ result = <<>>
    /\ InitSlots
    /\ strict = TRUE
    /\ traced = FALSE
    /\ limit = MaxCalls
    /\ pc \in {"ensure_blank_line", "render_table", "render_code_block", "parse",
              "to_cmf"}
    /\ context \in (IF pc = "ensure_blank_line" THEN Contexts
                    ELSE {RenderContext_new(FALSE)})
    /\ arg \in (CASE pc = "ensure_blank_line" -> {context}
                  [] pc = "render_table" -> Tables
                  [] pc = "render_code_block" -> Buffers
                  [] OTHER -> {<<>>})
    /\ input \in (IF pc = "parse" THEN Inputs ELSE {<<>>})
    /\ doc \in (IF pc = "to_cmf" THEN Documents ELSE {<<>>})
    /\ cmf = <<>>
    /\ reparsed = <<>>

\* ensure_blank_line called again
EnsureBlankLine ==
    /\ pc = "ensure_blank_line"
    /\ n < limit
    /\ context' = ensure_blank_line(context)
    /\ n' = n + 1
    /\ UNCHANGED <<markdown, pc, result, code_renderer, table_renderer,
                   blockquote_renderer, list_depth, list_renderer, in_list_item, event,
                   open, made, wellformed, strict, limit, log, traced, unit>>

\* a function of arg called, and what it returned
Call(function, returned) ==
    /\ pc = function
    /\ pc' = "returned"
    /\ event' = [NoEvent EXCEPT !.kind = function]
    /\ result' = returned
    /\ UNCHANGED <<markdown, driver, open, n, made, wellformed, strict, limit, log,
                   traced, unit>>

RenderTable == Call("render_table", render_table(arg))

RenderCodeBlock == Call("render_code_block", render_code_block(arg))

\* the steps of a round trip (lines 399-401): parse, to_cmf, parse
Parse ==
    /\ pc = "parse"
    /\ pc' = "to_cmf"
    /\ doc' = parse(input)
    /\ UNCHANGED <<markdown, result, driver, event, open, n, made, wellformed, strict,
                   limit, log, traced, arg, input, cmf, reparsed>>

ToCmf ==
    /\ pc = "to_cmf"
    /\ pc' = "reparse"
    /\ cmf' = to_cmf(doc)
    /\ UNCHANGED <<markdown, result, driver, event, open, n, made, wellformed, strict,
                   limit, log, traced, arg, input, doc, reparsed>>

Reparse ==
    /\ pc = "reparse"
    /\ pc' = "returned"
    /\ reparsed' = parse(cmf)
    /\ event' = [NoEvent EXCEPT !.kind = "parse"]
    /\ UNCHANGED <<markdown, result, driver, open, n, made, wellformed, strict,
                   limit, log, traced, arg, input, doc, cmf>>

\* Document::check on the serialized text
Check ==
    /\ pc = "reparse"
    /\ pc' = "returned"
    /\ result' = check(cmf)
    /\ event' = [NoEvent EXCEPT !.kind = "check"]
    /\ UNCHANGED <<markdown, driver, open, n, made, wellformed, strict, limit, log,
                   traced, unit>>

NextUnit ==
    \/ EnsureBlankLine \/ RenderTable \/ RenderCodeBlock
    \/ Parse \/ ToCmf \/ Reparse \/ Check

SpecUnit == InitUnit /\ [][NextUnit]_vars

(***************************************************************************)
(* The claims.                                                             *)
(***************************************************************************)
RendererKinds == {"code", "table", "blockquote", "list"}

Slot(kind) ==
    CASE kind = "code" -> code_renderer
      [] kind = "table" -> table_renderer
      [] kind = "blockquote" -> blockquote_renderer
      [] kind = "list" -> list_renderer

KindOf(tag) ==
    CASE tag = "CodeBlock" -> "code"
      [] tag = "Table" -> "table"
      [] tag = "BlockQuote" -> "blockquote"
      [] tag = "List" -> "list"
      [] OTHER -> "none"

Occupied == {kind \in RendererKinds : Slot(kind).some}

OpenKinds == {KindOf(open[i].tag) : i \in 1..Len(open)}

\* C1 as stated: at every point of render at most one of the four renderer slots
\* is occupied.
C1_AtMostOneRenderer == Cardinality(Occupied) <= 1

\* C1, amended: a renderer slot is occupied only while a block of its kind is open,
\* so two slots are occupied only while blocks of different kinds are nested.
C1_OccupiedOnlyWhileOpen == Occupied \subseteq OpenKinds

\* two slots are occupied at once
C1_Witness == Cardinality(Occupied) = 2 /\ Occupied \subseteq OpenKinds

\* C2: every open code block, table, blockquote and list still has the renderer
\* made at its Start event, and every renderer in a slot was made at the Start event
\* of a block that is still open.
C2_RendererLivesWithItsBlock ==
    /\ \A i \in 1..Len(open) :
          KindOf(open[i].tag) \in RendererKinds =>
              /\ Slot(KindOf(open[i].tag)).some
              /\ made[KindOf(open[i].tag)] = open[i].id
    /\ \A kind \in Occupied : \E i \in 1..Len(open) : open[i].id = made[kind]

\* the renderer of the tag's kind is missing when its End event arrives
NoRendererFor(tag) ==
    \/ tag = "List" /\ list_depth = 0
    \/ tag = "CodeBlock" /\ ~code_renderer.some
    \/ tag = "BlockQuote" /\ ~blockquote_renderer.some
    \/ tag = "Table" /\ ~table_renderer.some

Appended == SubSeq(context'.output, Len(context.output) + 1, Len(context'.output))

RECURSIVE StripSpaces(_)
StripSpaces(s) == IF s # <<>> /\ Head(s) = " " THEN StripSpaces(Tail(s)) ELSE s

\* C4: the marker written for an item of an ordered list is, after its
\* indentation, the number of the item within that list (1 for the first, one more
\* for each item after it, nested lists in between or not), a dot and a space.
C4_OrderedListNumbering ==
    [][(n' = n + 1 /\ event' = Start("Item") /\ Top = "List" /\ Last(open).ordered)
          => /\ Len(context'.output) >= Len(context.output)
             /\ StripSpaces(Appended) = Decimal(Last(open).items + 1) \o <<".", " ">>]_vars

RECURSIVE TrailingNewlines(_)
TrailingNewlines(s) ==
    IF s # <<>> /\ Last(s) = NL THEN 1 + TrailingNewlines(Front(s)) ELSE 0

\* C5: PendingNewlines is 0 when the output buffer ends with a character that is not
\* a newline, and it counts the newlines appended since.
C5_PendingNewlines ==
    /\ (context.output # <<>> /\ Last(context.output) # NL)
          => context.pending_newlines = 0
    /\ context.pending_newlines = TrailingNewlines(context.output)

\* the styles of the inline elements that are open, outermost first
RECURSIVE StylesOpen(_)
StylesOpen(elements) ==
    IF elements = <<>> THEN <<>>
    ELSE (IF Head(elements).tag \in StyleTags THEN <<StateOf(Head(elements).tag)>> ELSE <<>>)
         \o StylesOpen(Tail(elements))

\* C6: an Emphasis, Strong or Link Start event pushes its style on the formatting
\* stack and an End event of one pops the last style, leaving an empty stack empty;
\* no other event changes the stack; and while the events nest properly the stack
\* holds the styles of the open inline elements, outermost first.
C6_FormattingStack ==
    [][n' = n + 1 =>
         LET stack == context.formatting_stack
             after == context'.formatting_stack
         IN  /\ (event'.kind = "Start" /\ event'.tag \in StyleTags)
                    => after = Append(stack, StateOf(event'.tag))
             /\ (event'.kind = "End" /\ event'.tag \in StyleTags)
                    => /\ Len(after) = (IF Len(stack) = 0 THEN 0 ELSE Len(stack) - 1)
                       /\ after = SubSeq(stack, 1, Len(after))
             /\ ~(event'.kind \in {"Start", "End"} /\ event'.tag \in StyleTags)
                    => after = stack
             /\ wellformed' => after = StylesOpen(open')]_vars

\* a nested Emphasis has ended inside a Strong that is still open
C6_Witness ==
    /\ wellformed
    /\ event = End("Emphasis")
    /\ context.formatting_stack = <<"Bold">>
    /\ Len(open) = 2 /\ open[2].tag = "Strong"

\* C7: the string render returns ends with one newline that no white space precedes.
C7_ResultTrimmed ==
    pc = "done" =>
        /\ result # <<>>
        /\ Last(result) = NL
        /\ trim_end(Front(result)) = Front(result)

\* the trigger patterns as the specification lists them
TriggerPatterns ==
    {<<"*", "*">>, <<"*">>, <<BACKTICK>>, <<"#">>, <<"[">>, <<"-", " ">>,
     <<"1", ".", " ">>, <<NL>>}

NoTrigger(text) == \A pattern \in TriggerPatterns : ~Contains(text, pattern)

\* C8: render returns a text that holds no trigger pattern as it is, and the parser
\* is not run on it.
C8_FastPathIdentity ==
    (pc # "start" /\ NoTrigger(markdown)) => (pc = "done" /\ result = markdown)

\* render has returned a text that is one character short of the pattern "1. "
C8_Witness == pc = "done" /\ markdown = <<"1", ".">> /\ result = <<"1", ".">>

\* what the driver and into_output make of the events of one paragraph of plain
\* text: Start(Paragraph), Text(text), End(Paragraph)
FullRendering(use_colors, text) ==
    LET started == ensure_blank_line(RenderContext_new(use_colors))
        written == push_str(started, render_text(use_colors, text, started.formatting_stack))
        ended == [push_newline(written) EXCEPT !.pending_newlines = 1]
    IN  into_output(ended)

\* a text the parser reads as one paragraph holding that text: words of letters and
\* digits with spaces between them, the first a letter
PlainParagraph(text) ==
    /\ text # <<>>
    /\ Head(text) = "a"
    /\ Last(text) # " "
    /\ \A i \in 1..Len(text) : text[i] \in {"a", "1", " "}

\* C9: what the fast path returns for a text with no trigger pattern that is one
\* paragraph of plain text is what the event driver and into_output produce for it.
C9_FastPathEquivalent ==
    (pc = "done" /\ NoTrigger(markdown) /\ PlainParagraph(markdown))
        => result = FullRendering(context.use_colors, markdown)

\* the characters of the payloads, and those of the layout
PayloadChars == UNION {{text[i] : i \in 1..Len(text)} : text \in Texts \cup Codes}
LayoutChars ==
    Glyphs \cup {NL, " ", "."} \cup {Digit(d) : d \in 0..9}

\* a block renderer takes the Text events
Absorbing == code_renderer.some \/ table_renderer.some \/ blockquote_renderer.some

C11_EnsureBlankLineIdempotent ==
    [][(pc = "ensure_blank_line" /\ n' = n + 1) =>
         /\ context'.output \in {context.output, Append(context.output, NL)}
         /\ context'.output # context.output => TrailingNewlines(context'.output) <= 2
         /\ EndsWith(context.output, <<NL, NL>>) => context' = context
         /\ Len(context'.output) <= Len(arg.output) + 2]_vars

\* three calls on a buffer that ended with a letter have added one blank line
C11_Witness ==
    /\ pc = "ensure_blank_line"
    /\ n = 3
    /\ arg.output = <<"a">> /\ arg.pending_newlines = 0
    /\ context.output = <<"a", NL, NL>>

\* the text cut at each character of seps
RECURSIVE Pieces(_, _, _)
Pieces(s, seps, cur) ==
    IF s = <<>> THEN <<cur>>
    ELSE IF Head(s) \in seps THEN <<cur>> \o Pieces(Tail(s), seps, <<>>)
    ELSE Pieces(Tail(s), seps, Append(cur, Head(s)))

TableRendered == pc = "returned" /\ event.kind = "render_table"

\* the length of the longest cell i of the rows
LongestCell(rows, i) ==
    MaxOf([r \in 1..Len(rows) |-> IF i <= Len(rows[r]) THEN Len(rows[r][i]) ELSE 0])

\* C12: in the rendering of a table that has rows, the segment of column i in every
\* border line is as many dashes as the longest cell i has characters and two more, and
\* every cell i is followed by spaces up to the length of the longest cell i, between
\* one space and one space.
C12_ColumnWidths ==
    (TableRendered /\ arg # <<>>) =>
        LET lines == SplitNL(result, <<>>)
            num_cols == MaxOf([r \in 1..Len(arg) |-> Len(arg[r])])
            inner(line) == SubSeq(line, 2, Len(line) - 1)
            segments(line) ==
                IF num_cols = 0 THEN <<>>
                ELSE Pieces(inner(line), {TEE_DOWN, CROSS, TEE_UP}, <<>>)
            cells(line) == Pieces(Front(Tail(line)), {VERTICAL}, <<>>)
        IN  /\ Len(lines) = 2 * Len(arg) + 1
            /\ \A k \in 1..Len(lines) :
                  IF k % 2 = 1
                  THEN /\ Len(segments(lines[k])) = num_cols
                       /\ \A i \in 1..num_cols :
                             segments(lines[k])[i]
                                = Repeat(<<HORIZONTAL>>, LongestCell(arg, i) + 2)
                  ELSE LET row == arg[k \div 2]
                       IN  \A i \in 1..Len(row) :
                             /\ i <= Len(cells(lines[k]))
                             /\ cells(lines[k])[i]
                                  = <<" ">> \o row[i]
                                    \o Repeat(<<" ">>, LongestCell(arg, i) - Len(row[i]))
                                    \o <<" ">>

\* C13: a table of no rows renders as the empty string; a table of n >= 1 rows renders
\* as 2n + 1 lines with no newline after the last: a top border, the lines of the rows
\* in the order of the rows, each holding the cells of its row, one separator line
\* after every row but the last, and a bottom border.
C13_TableLines ==
    TableRendered =>
        LET lines == SplitNL(result, <<>>)
            rows == arg
            text(line) == SelectSeq(line, LAMBDA c : c \notin {VERTICAL, " "})
            is_border(line, left, right) ==
                /\ Len(line) >= 2 /\ Head(line) = left /\ Last(line) = right
                /\ \A j \in 2..(Len(line) - 1) :
                      line[j] \in {HORIZONTAL, TEE_DOWN, CROSS, TEE_UP}
        IN  IF rows = <<>> THEN result = <<>>
            ELSE /\ Len(lines) = 2 * Len(rows) + 1
                 /\ is_border(lines[1], TOP_LEFT, TOP_RIGHT)
                 /\ is_border(lines[Len(lines)], BOTTOM_LEFT, BOTTOM_RIGHT)
                 /\ \A r \in 1..Len(rows) :
                       /\ Head(lines[2 * r]) = VERTICAL
                       /\ text(lines[2 * r]) = Join(rows[r], <<>>)
                       /\ r < Len(rows)
                            => is_border(lines[2 * r + 1], TEE_RIGHT, TEE_LEFT)

\* a table of three rows of different lengths has been rendered
C13_Witness ==
    /\ TableRendered
    /\ arg = <<<<<<"a">>, <<"a">>>>, <<<<"a">>>>, <<<<E_ACUTE, "b">>, <<"a">>>>>>
    /\ Len(SplitNL(result, <<>>)) = 7

\* C15: a code block whose buffer is empty renders as the empty string; one whose
\* buffer has n >= 1 lines, the longest of max_len characters, renders as n + 2 lines
\* of equal width: a top and a bottom border of max_len + 2 dashes between their
\* corners, and between them each line of the buffer, in order, after a bar and a space
\* and followed by spaces up to max_len, a space and a bar.
C15_CodeBlockBox ==
    (pc = "returned" /\ event.kind = "render_code_block") =>
        LET lines == Lines(arg)
            max_len == MaxOf([k \in 1..Len(lines) |-> Len(lines[k])])
            box == SplitNL(result, <<>>)
        IN  IF arg = <<>> THEN result = <<>>
            ELSE /\ Len(box) = Len(lines) + 2
                 /\ box[1] = <<TOP_LEFT>> \o Repeat(<<HORIZONTAL>>, max_len + 2)
                                \o <<TOP_RIGHT>>
                 /\ box[Len(box)] = <<BOTTOM_LEFT>> \o Repeat(<<HORIZONTAL>>, max_len + 2)
                                       \o <<BOTTOM_RIGHT>>
                 /\ \A k \in 1..Len(lines) :
                       box[k + 1] = <<VERTICAL, " ">> \o lines[k]
                                    \o Repeat(<<" ">>, max_len - Len(lines[k]))
                                    \o <<" ", VERTICAL>>
                 /\ \A k \in 1..Len(box) : Len(box[k]) = Len(box[1])

IsBreak(e) == e.kind \in {"SoftBreak", "HardBreak"}

\* the lines of text that the events make: a break ends a line
RECURSIVE TextLines(_, _)
TextLines(events, cur) ==
    IF events = <<>> THEN <<cur>>
    ELSE IF IsBreak(Head(events)) THEN <<cur>> \o TextLines(Tail(events), <<>>)
    ELSE TextLines(Tail(events), cur \o Head(events).text)

\* the events are those of one blockquote that holds one paragraph of lines of text
QuoteOfLines(events) ==
    /\ Len(events) >= 5
    /\ events[1] = Start("BlockQuote") /\ events[2] = Start("Paragraph")
    /\ events[Len(events) - 1] = End("Paragraph")
    /\ events[Len(events)] = End("BlockQuote")
    /\ \A i \in 3..(Len(events) - 2) : events[i].kind = "Text" \/ IsBreak(events[i])
    /\ LET lines == TextLines(SubSeq(events, 3, Len(events) - 2), <<>>)
       IN  \A k \in 1..Len(lines) : lines[k] # <<>>

\* C14: the rendering of a blockquote that holds k lines of text, with soft or hard
\* breaks between them, is k lines: the marker, a space and the text of line i, for
\* i = 1..k in this order.
C14_BlockquoteLines ==
    (pc = "done" /\ QuoteOfLines(log)) =>
        LET lines == TextLines(SubSeq(log, 3, Len(log) - 2), <<>>)
        IN  Lines(result) = [k \in 1..Len(lines) |-> <<QUOTE_BAR, " ">> \o lines[k]]

\* the payloads of the events, in the order of the events
RECURSIVE Payloads(_)
Payloads(events) ==
    IF events = <<>> THEN <<>>
    ELSE (CASE Head(events).kind \in {"Text", "Code"} -> Head(events).text
            [] Head(events).kind = "TaskListMarker" ->
                  IF Head(events).checked THEN <<CHECKED>> ELSE <<UNCHECKED>>
            [] OTHER -> <<>>)
         \o Payloads(Tail(events))

\* the events are those of one paragraph of text, inline code and inline styles
ParagraphOfInlines(events) ==
    /\ Len(events) >= 3
    /\ events[1] = Start("Paragraph")
    /\ events[Len(events)] = End("Paragraph")
    /\ \A i \in 2..(Len(events) - 1) :
          \/ events[i].kind \in {"Text", "Code"}
          \/ events[i].kind \in {"Start", "End"} /\ events[i].tag \in StyleTags

RECURSIVE IsSubsequence(_, _)
IsSubsequence(p, s) ==
    IF p = <<>> THEN TRUE
    ELSE IF s = <<>> THEN FALSE
    ELSE IF Head(p) = Head(s) THEN IsSubsequence(Tail(p), Tail(s))
    ELSE IsSubsequence(p, Tail(s))

\* C20: the payloads of the Text, Code and TaskListMarker events are found in the
\* string render returns in the order of their events.
C20_OutputFollowsEvents ==
    pc = "done" => IsSubsequence(Payloads(log), result)

\* C17: the Document parsed from the text that to_cmf makes of the Document parsed
\* from any text is that Document: the same turns, each with the same username, user
\* content and assistant text.
C17_RoundTrip ==
    (pc = "returned" /\ event.kind = "parse" /\ doc = parse(input)) => reparsed = doc

IsUserLine(line) == line # <<>> /\ Head(line) = ">"

\* the maximal runs of user lines: the first and last line of each, and the first
\* line of the next
UserRuns(lines) ==
    LET firsts == {i \in 1..Len(lines) :
                      IsUserLine(lines[i]) /\ (i = 1 \/ ~IsUserLine(lines[i - 1]))}
        lasts == {i \in 1..Len(lines) :
                     IsUserLine(lines[i]) /\ (i = Len(lines) \/ ~IsUserLine(lines[i + 1]))}
        nth(S, k) == CHOOSE x \in S : Cardinality({y \in S : y < x}) = k - 1
    IN  [k \in 1..Cardinality(firsts) |->
            [first |-> nth(firsts, k), last |-> nth(lasts, k),
             next |-> IF k < Cardinality(firsts) THEN nth(firsts, k + 1)
                      ELSE Len(lines) + 1]]

\* a user line without its mark and the one space that may follow it
Unmarked(line) ==
    IF Len(line) >= 2 /\ line[2] = " " THEN SubSeq(line, 3, Len(line)) ELSE Tail(line)

IsBlank(line) == \A i \in 1..Len(line) : line[i] \in WhiteSpace

\* the lines without the blank lines at their start and at their end
RECURSIVE TrimBlankLines(_)
TrimBlankLines(lines) ==
    IF lines # <<>> /\ IsBlank(Head(lines)) THEN TrimBlankLines(Tail(lines))
    ELSE IF lines # <<>> /\ IsBlank(Last(lines)) THEN TrimBlankLines(Front(lines))
    ELSE lines

UserLinesOf(lines, run) == [i \in 1..(run.last - run.first + 1) |->
                               Unmarked(lines[run.first + i - 1])]

AssistantOf(lines, run) ==
    Join(TrimBlankLines(SubSeq(lines, run.last + 1, run.next - 1)), <<NL>>)

Parsed == pc \in {"to_cmf", "reparse", "returned"} /\ doc = parse(input)

\* C18 as stated: parse yields one turn for each maximal run of user lines, in order;
\* its user content is the lines of the run without their mark, joined by newlines;
\* its assistant text is the lines up to the next run without the blank lines at
\* both ends, joined by newlines; the lines before the first run are in no turn.
C18_TurnPerRun ==
    Parsed =>
        LET lines == Lines(input)
            runs == UserRuns(lines)
        IN  /\ Len(doc) = Len(runs)
            /\ \A k \in 1..Len(runs) :
                  /\ doc[k].user.content = Join(UserLinesOf(lines, runs[k]), <<NL>>)
                  /\ doc[k].assistant = AssistantOf(lines, runs[k])

\* C18, amended: as C18, but when the first line of the run, without its mark, starts
\* with @ and holds a colon, the username is the text between the @ and the first colon
\* and the user content starts after that colon and the white space that follows it;
\* otherwise there is no username.
C18_TurnPerRunWithUsername ==
    Parsed =>
        LET lines == Lines(input)
            runs == UserRuns(lines)
        IN  /\ Len(doc) = Len(runs)
            /\ \A k \in 1..Len(runs) :
                  LET user_lines == UserLinesOf(lines, runs[k])
                      first == user_lines[1]
                      colons == {i \in 1..Len(first) : first[i] = ":"}
                      colon == CHOOSE i \in colons : \A j \in colons : i <= j
                  IN  /\ doc[k].assistant = AssistantOf(lines, runs[k])
                      /\ IF first # <<>> /\ Head(first) = "@" /\ colons # {}
                         THEN /\ doc[k].user.username = Some(SubSeq(first, 2, colon - 1))
                              /\ doc[k].user.content =
                                    Join(<<StripSpaces(SubSeq(first, colon + 1, Len(first)))>>
                                         \o Tail(user_lines), <<NL>>)
                         ELSE /\ doc[k].user.username = None
                              /\ doc[k].user.content = Join(user_lines, <<NL>>)

\* a user line with a username has been parsed
C18_Witness ==
    /\ Parsed
    /\ input = <<">", "@", "a", ":", "a">>
    /\ doc = <<[user |-> [username |-> Some(<<"a">>), content |-> <<"a">>],
               assistant |-> <<>>]>>

\* the lines of a turn as to_cmf is to write them
TurnLines(turn) ==
    LET content == Lines(turn.user.content)
        named == IF turn.user.username.some
                 THEN [content EXCEPT ![1] = <<"@">> \o turn.user.username.v
                                             \o <<":", " ">> \o @]
                 ELSE content
    IN  [k \in 1..Len(named) |-> <<">", " ">> \o named[k]]
        \o (IF turn.assistant # <<>> THEN Lines(turn.assistant) ELSE <<>>)

\* C19: to_cmf writes the turns in order, each as the lines of its user content after
\* "> " (the first after "@username: " too when there is a username) and then its
\* assistant text when it has one, with one blank line between two turns, nothing
\* before the first turn and no newline at the end.
C19_ToCmfLayout ==
    (pc \in {"reparse", "returned"} /\ doc \in Documents /\ doc # <<>>) =>
        cmf = Join([i \in 1..Len(doc) |-> Join(TurnLines(doc[i]), <<NL>>)], <<NL, NL>>)

\* the parser starts an item of the list it has open
ItemStarts == n' = n + 1 /\ event' = Start("Item") /\ Top = "List"

\* C21: the marker written for an item is, after its indentation, a number, a dot
\* and a space when the list that directly contains the item is ordered, and the
\* bullet and a space when that list is unordered.
C21_MarkerOfContainingList ==
    [][ItemStarts =>
          /\ Len(context'.output) >= Len(context.output)
          /\ IF Last(open).ordered
             THEN \E k \in 1..limit :
                     StripSpaces(Appended) = Decimal(k) \o <<".", " ">>
             ELSE StripSpaces(Appended) = <<BULLET, " ">>]_vars

\* the number of lists the parser has open
ListsOpen == Cardinality({i \in 1..Len(open) : open[i].tag = "List"})

\* C22: the marker of an item starts a line of the output: what is written at the
\* start of an item of a list at depth d is written at the start of the buffer or
\* after a newline, and it is 2 * (d - 1) spaces and then the marker.
C22_MarkerStartsLine ==
    [][ItemStarts =>
          /\ Len(context'.output) >= Len(context.output)
          /\ context.output = <<>> \/ Last(context.output) = NL
          /\ StripSpaces(Appended) # <<>>
          /\ Len(Appended) - Len(StripSpaces(Appended)) = 2 * (ListsOpen - 1)]_vars

\* C23: as long as no HardBreak event has been handled, the output buffer holds no
\* three newline characters in a row, that is, no two blank lines in a row.
C23_NoTwoBlankLines ==
    (\A i \in 1..Len(log) : log[i].kind # "HardBreak") =>
        ~Contains(context.output, <<NL, NL, NL>>)

\* the renderer that takes Text and break events: code block before table before
\* blockquote
Taker ==
    IF code_renderer.some THEN "code"
    ELSE IF table_renderer.some THEN "table"
    ELSE IF blockquote_renderer.some THEN "blockquote"
    ELSE "none"

BlockTagOf(kind) ==
    CASE kind = "code" -> "CodeBlock"
      [] kind = "table" -> "Table"
      [] kind = "blockquote" -> "BlockQuote"

IsPrefix(s, t) == Len(s) <= Len(t) /\ SubSeq(t, 1, Len(s)) = s

\* the characters a block renderer has accumulated, in the order they came
Held(kind, r) ==
    CASE kind = "code" -> r.buffer
      [] kind = "blockquote" -> Join(r.lines, <<>>) \o r.current_line
      [] kind = "table" ->
            Join([i \in 1..Len(r.rows) |-> Join(r.rows[i], <<>>)], <<>>)
            \o Join(r.current_row, <<>>) \o r.current_cell

\* a Text or break event goes to the taker and to nothing else
C24_Absorbs ==
    (Absorbing /\ event'.kind \in {"Text", "SoftBreak", "HardBreak"}) =>
        /\ context' = context
        /\ \A kind \in {"code", "table", "blockquote"} \ {Taker} :
               Slot(kind)' = Slot(kind)
        /\ LET added == CASE event'.kind = "Text" -> event'.text
                           [] event'.kind = "HardBreak" -> <<NL>>
                           [] event'.kind = "SoftBreak" ->
                                 IF Taker = "table" THEN <<" ">> ELSE <<NL>>
           IN  CASE Taker = "code" ->
                       code_renderer'.v.buffer = code_renderer.v.buffer \o added
                 [] Taker = "table" ->
                       table_renderer'.v.current_cell
                           = table_renderer.v.current_cell \o added
                 [] Taker = "blockquote" ->
                       IF event'.kind = "Text"
                       THEN blockquote_renderer'.v.current_line
                                = blockquote_renderer.v.current_line \o added
                       ELSE Held("blockquote", blockquote_renderer'.v)
                                = Held("blockquote", blockquote_renderer.v)

\* the End event of a block appends what its renderer holds, laid out and undecorated
C24_AppendsAtEnd ==
    \A kind \in {"code", "table", "blockquote"} :
        (event' = End(BlockTagOf(kind)) /\ Slot(kind).some) =>
            /\ context'.output = context.output
                   \o (CASE kind = "code" -> CodeBlock_end(code_renderer.v)
                          [] kind = "table" -> Table_end(table_renderer.v)
                          [] kind = "blockquote" -> Blockquote_end(blockquote_renderer.v))
                   \o <<NL>>
            /\ \A i \in 1..Len(Appended) : Appended[i] \in PayloadChars \cup LayoutChars

\* no other event takes away what a block renderer holds
C24_KeepsUntilEnd ==
    \A kind \in {"code", "table", "blockquote"} :
        (Slot(kind).some /\ event' # End(BlockTagOf(kind))) =>
            /\ Slot(kind)'.some
            /\ IsPrefix(Held(kind, Slot(kind).v), Held(kind, Slot(kind)'.v))

\* C24: while a code-block, table or blockquote renderer is active, a Text, SoftBreak
\* or HardBreak event is taken by that renderer (code block before table before
\* blockquote) and leaves the output buffer and pending_newlines as they were; what
\* the renderer has accumulated stays with it until the End event of its block and
\* is appended to the output there, with no inline decoration.
C24_AbsorbedUntilBlockEnd ==
    [][n' = n + 1 => C24_Absorbs /\ C24_AppendsAtEnd /\ C24_KeepsUntilEnd]_vars

\* context and block renderers after a SoftBreak, and after a HardBreak, handled in
\* the current state (lines 574-603)
AfterSoftBreak ==
    IF code_renderer.some
    THEN <<context, Some(CodeBlock_handle_soft_break(code_renderer.v)), table_renderer,
           blockquote_renderer>>
    ELSE IF table_renderer.some
    THEN <<context, code_renderer, Some(Table_handle_soft_break(table_renderer.v)),
           blockquote_renderer>>
    ELSE IF blockquote_renderer.some
    THEN <<context, code_renderer, table_renderer,
           Some(Blockquote_handle_soft_break(blockquote_renderer.v))>>
    ELSE <<push_str(context, <<" ">>), code_renderer, table_renderer, blockquote_renderer>>

AfterHardBreak ==
    IF code_renderer.some
    THEN <<context, Some(CodeBlock_handle_hard_break(code_renderer.v)), table_renderer,
           blockquote_renderer>>
    ELSE IF table_renderer.some
    THEN <<context, code_renderer, Some(Table_handle_hard_break(table_renderer.v)),
           blockquote_renderer>>
    ELSE IF blockquote_renderer.some
    THEN <<context, code_renderer, table_renderer,
           Some(Blockquote_handle_hard_break(blockquote_renderer.v))>>
    ELSE <<HardBreakInline(context), code_renderer, table_renderer, blockquote_renderer>>

\* the parser is inside a code block or a blockquote
InCodeOrQuote == \E i \in 1..Len(open) : open[i].tag \in {"CodeBlock", "BlockQuote"}

\* C25: for a break event among the events of a code block or of a blockquote the
\* kind of the break makes no difference: the state after it is the state a break
\* of the other kind would have left.
C25_BreakKindIrrelevant ==
    [][(n' = n + 1 /\ InCodeOrQuote /\ event'.kind \in {"SoftBreak", "HardBreak"}) =>
          /\ AfterSoftBreak = AfterHardBreak
          /\ <<context, code_renderer, table_renderer, blockquote_renderer>>'
                 = AfterSoftBreak]_vars

\* how many characters of a line are in a set
Count(line, chars) == Cardinality({j \in 1..Len(line) : line[j] \in chars})

\* C26: the public render_table renders a table whose rows differ in length with a
\* line of exactly k cells (k + 1 vertical bars) for a row of k cells, rows of no
\* cells included, and with border lines that span all num_cols columns; the
\* rendering is made for every combination of row lengths.
C26_RaggedTable ==
    (TableRendered /\ arg # <<>>) =>
        LET lines == SplitNL(result, <<>>)
            num_cols == MaxOf([r \in 1..Len(arg) |-> Len(arg[r])])
        IN  /\ Len(lines) = 2 * Len(arg) + 1
            /\ \A k \in 1..Len(lines) :
                  IF k % 2 = 0
                  THEN Count(lines[k], {VERTICAL}) = Len(arg[k \div 2]) + 1
                  ELSE /\ Count(lines[k], {TEE_DOWN, CROSS, TEE_UP}) = Max(num_cols - 1, 0)
                       /\ Count(lines[k], {HORIZONTAL})
                              = Len(lines[k]) - 2 - Max(num_cols - 1, 0)
                       /\ Count(lines[k], {HORIZONTAL}) >= 2 * num_cols
                       /\ num_cols > 0 => /\ lines[k][2] = HORIZONTAL
                                          /\ lines[k][Len(lines[k]) - 1] = HORIZONTAL

\* a table of a row of no cells, a row of two cells and a row of one has been
\* rendered
C26_Witness ==
    /\ TableRendered
    /\ arg = <<<<>>, <<<<"a">>, <<E_ACUTE, "b">>>>, <<<<"a">>>>>>
    /\ SplitNL(result, <<>>)[2] = <<VERTICAL>>
    /\ Count(SplitNL(result, <<>>)[4], {VERTICAL}) = 3
    /\ Count(SplitNL(result, <<>>)[1], {TEE_DOWN}) = 1

\* the last event handled was the start of an item, whose marker has been written,
\* or the start of the paragraph that wraps the item's text
AfterMarker ==
    /\ list_renderer.some
    /\ \/ event = Start("Item")
       \/ /\ event = Start("Paragraph") /\ Len(open) >= 2
          /\ open[Len(open) - 1].tag = "Item"

\* C27: the text of an item follows the marker on the same line: the start of the
\* paragraph that wraps the text of an item, coming right after the marker, writes
\* nothing to the output, and the first Text after the marker appends its text and
\* no newline.
C27_TextFollowsMarker ==
    [][(n' = n + 1 /\ AfterMarker) =>
          /\ (event = Start("Item") /\ event' = Start("Paragraph"))
                => context'.output = context.output
          /\ event'.kind = "Text"
                => /\ Len(context'.output) >= Len(context.output)
                   /\ ~Contains(Appended, <<NL>>)]_vars

\* the list renderer slot is occupied exactly when list_depth > 0
ListSlotFollowsDepth == list_depth >= 0 /\ (list_renderer.some <=> list_depth > 0)

\* C28: every event other than an End(List) that no Start(List) matches (one that
\* arrives at list_depth 0) keeps the list renderer slot occupied exactly when
\* list_depth > 0, so after each event of a sequence whose List events are properly
\* nested the two agree; a Start(Item) that finds a renderer finds list_depth >= 1,
\* and render does not fail.
C28_ListSlotFollowsDepth ==
    [][(n' = n + 1 /\ ListSlotFollowsDepth
          /\ ~(event' = End("List") /\ list_depth = 0)) =>
          /\ ListSlotFollowsDepth'
          /\ (event'.kind = "Start" /\ event'.tag = "List") => list_depth' = list_depth + 1
          /\ event' = End("List") => list_depth' = list_depth - 1
          /\ (event' = Start("Item") /\ list_renderer.some) => list_depth >= 1
          /\ pc' = "loop"]_vars

\* a nested list has ended inside a list that is still open
C28_Witness ==
    /\ event = End("List")
    /\ list_depth = 1
    /\ list_renderer.some
    /\ ListSlotFollowsDepth

\* C29: for every sequence of rows the public render_table returns the string that
\* render_table of a TableRenderer holding these rows returns.
C29_TableLayoutsAgree ==
    TableRendered =>
        result = TableRenderer_render_table([TableRenderer_new EXCEPT !.rows = arg].rows)

\* a table with a cell of two characters and three bytes, and rows of one and of two
\* cells, has been rendered by both
C29_Witness ==
    /\ TableRendered
    /\ arg = <<<<<<E_ACUTE, "b">>>>, <<<<"a">>, <<"a">>>>>>
    /\ Len(SplitNL(result, <<>>)) = 5
    /\ Len(SplitNL(TableRenderer_render_table(arg), <<>>)[1]) = 11

\* C30: the serialized text of a Document that parse returned is conformant: check
\* returns no issues for it.
C30_SerializedConformant ==
    (pc = "returned" /\ event.kind = "check" /\ doc = parse(input)) => result = <<>>

====
